---------------------------- MODULE Spec2Model ----------------------------
(***************************************************************************)
(* A model of the receipts archive (src/app): the receipt tables, the      *)
(* handlers of routes/receipt.py and the text rendering of                 *)
(* get_formatted_receipt.                                                  *)
(*                                                                         *)
(* Strings are sequences of one-character strings, so that widths are      *)
(* lengths.  A Cyrillic letter is one element named by its code point      *)
(* ("u0421" is the capital ES of the label on the total line).             *)
(*                                                                         *)
(* Amounts are Python floats (IEEE-754 binary64).  The model carries the   *)
(* doubles of the form  hi * 2^53 + lo / 4  with lo small: with hi = 0     *)
(* these are the multiples of 0.25 of everyday prices, on which binary64   *)
(* arithmetic is exact; with hi # 0 they lie where the spacing of binary64 *)
(* is 1, 2, 4, ... and every operation rounds to nearest, ties to even.    *)
(***************************************************************************)
EXTENDS Integers, Sequences, FiniteSets, TLC

(***************************************************************************)
(* Bounds of the model.                                                    *)
(***************************************************************************)
MaxItems == 3
MaxRows == 2
MaxReceipts == 1
MaxClock == 1

(***************************************************************************)
(* binary64 arithmetic on the carried values.                              *)
(***************************************************************************)
F(h, q) == [hi |-> h, lo |-> q]

FZero == F(0, 0)

IsNeg(v) == v.hi < 0 \/ (v.hi = 0 /\ v.lo < 0)

Neg(v) == F(-v.hi, -v.lo)

FLess(a, b) == a.hi < b.hi \/ (a.hi = b.hi /\ a.lo < b.lo)

RECURSIVE Log2(_)
Log2(h) == IF h <= 1 THEN 0 ELSE 1 + Log2(h \div 2)

IsPow2(h) == h = 2 ^ Log2(h)

\* q rounded to the nearest multiple of s, a tie to the even multiple.
RoundHalfEven(q, s) ==
    LET d == q \div s
        r == q % s
    IN  IF 2 * r < s THEN d * s
        ELSE IF 2 * r > s THEN (d + 1) * s
        ELSE IF d % 2 = 0 THEN d * s ELSE (d + 1) * s

\* The double nearest to the real hi * 2^53 + lo / 4 >= 0.  Below 2^53 every
\* multiple of 0.25 of the model is a double.  In [2^(53+k), 2^(54+k)) the
\* doubles are 2^(k+1) apart, just below a power of two h = 2^k they are 2^k
\* apart (lo counts quarters, hence the factor 4).
RoundPos(v) ==
    IF v.hi = 0 THEN v
    ELSE LET k == Log2(v.hi)
             s == IF v.lo < 0 /\ IsPow2(v.hi) THEN 2 ^ (k + 2) ELSE 2 ^ (k + 3)
         IN  F(v.hi, RoundHalfEven(v.lo, s))

Round(v) == IF IsNeg(v) THEN Neg(RoundPos(Neg(v))) ELSE RoundPos(v)

FAdd(a, b) == Round(F(a.hi + b.hi, a.lo + b.lo))

FSub(a, b) == Round(F(a.hi - b.hi, a.lo - b.lo))

\* float * int: the int converts exactly, the product rounds once.
FMul(a, n) == Round(F(a.hi * n, a.lo * n))


(***************************************************************************)
(* Strings and Python's format mini-language.                              *)
(***************************************************************************)
RECEIPT_SIZE == 32

P53Hi == 90071992
P53Lo == 54740992
\* 2^53 = P53Hi * 10^8 + P53Lo: the decimal digits of a carried value are
\* computed in two limbs, each within TLC's integers.
Limb == 10 ^ 8

Max(a, b) == IF a >= b THEN a ELSE b

Repeat(c, n) == [i \in 1..n |-> c]

DigitChars == <<"0", "1", "2", "3", "4", "5", "6", "7", "8", "9">>

RECURSIVE Digits(_)
Digits(n) == IF n < 10 THEN <<DigitChars[n + 1]>>
             ELSE Digits(n \div 10) \o <<DigitChars[(n % 10) + 1]>>

\* "%0<w>d"
ZeroPad(n, w) == Repeat("0", Max(0, w - Len(Digits(n)))) \o Digits(n)

\* f"{s:<w}", f"{s:>w}", f"{s:^w}": padding only, a longer s is kept whole;
\* centring puts the odd space on the right.
LJust(s, w) == s \o Repeat(" ", Max(0, w - Len(s)))

RJust(s, w) == Repeat(" ", Max(0, w - Len(s))) \o s

Center(s, w) ==
    LET pad == Max(0, w - Len(s))
    IN  Repeat(" ", pad \div 2) \o s \o Repeat(" ", pad - (pad \div 2))

\* f"{v:.2f}" of a carried value: a multiple of 0.25, so two decimals are exact.
Fmt2(v) ==
    LET m    == IF IsNeg(v) THEN Neg(v) ELSE v
        low  == m.hi * P53Lo + (m.lo \div 4)
        high == m.hi * P53Hi + (low \div Limb)
        int  == IF high > 0 THEN Digits(high) \o ZeroPad(low % Limb, 8)
                ELSE Digits(low % Limb)
    IN  (IF IsNeg(v) THEN <<"-">> ELSE <<>>) \o int \o <<".">>
            \o ZeroPad((m.lo % 4) * 25, 2)

\* f"{n:.2f}" of an int
FmtInt2(n) == Fmt2(F(0, 4 * n))

\* "\n".join(lines)
RECURSIVE Join(_)
Join(lines) ==
    IF Len(lines) = 0 THEN <<>>
    ELSE IF Len(lines) = 1 THEN lines[1]
    ELSE lines[1] \o <<"\n">> \o Join(Tail(lines))

\* body.split("\n")
RECURSIVE SplitLines(_)
SplitLines(body) ==
    IF \A i \in 1..Len(body) : body[i] # "\n" THEN <<body>>
    ELSE LET i == CHOOSE j \in 1..Len(body) :
                      body[j] = "\n" /\ \A k \in 1..(j - 1) : body[k] # "\n"
         IN  <<SubSeq(body, 1, i - 1)>> \o SplitLines(SubSeq(body, i + 1, Len(body)))

\* created_at.strftime('%d.%m.%Y %H:%M')
Strftime(t) ==
    ZeroPad(t.day, 2) \o <<".">> \o ZeroPad(t.month, 2) \o <<".">>
        \o ZeroPad(t.year, 4) \o <<" ">> \o ZeroPad(t.hour, 2) \o <<":">>
        \o ZeroPad(t.minute, 2)

\* The literals of the receipt text.
LabelTotal == <<"u0421", "u0423", "u041C", "u0410">>

LabelRest == <<"u0420", "u0435", "u0448", "u0442", "u0430">>

Caption == <<"u0414", "u044F", "u043A", "u0443", "u0454", "u043C", "u043E", " ",
             "u0437", "u0430", " ", "u043F", "u043E", "u043A", "u0443", "u043F",
             "u043A", "u0443", "!">>

PaymentValue(pt) ==
    IF pt = "CASH" THEN <<"c", "a", "s", "h">>
    ELSE <<"c", "a", "s", "h", "l", "e", "s", "s">>


(***************************************************************************)
(* The tables (src/app/models.py) and the handlers' state.                 *)
(***************************************************************************)
VARIABLES
    receipt_tbl,          \* table "receipt": committed rows, in insertion order
    product_tbl,          \* table "product"
    product_to_receipt,   \* table "product_to_receipt"
    now,                  \* the clock datetime.utcnow() reads
    creator,              \* the create_receipt request in flight
    reader,               \* the reading request in flight
    resp,                 \* what the last finished reading request returned,
                          \* forgotten at the next commit
    requested,            \* ghost: receipt id -> the products it was posted with
    user_tbl,             \* table "user"
    issued,               \* the tokens create_access_token has made, in order
    user_resp,            \* what the last request to routes/user.py returned
    deleted               \* ghost: the receipt ids a delete_receipt has removed

vars == <<receipt_tbl, product_tbl, product_to_receipt, now, creator, reader,
          resp, requested, user_tbl, issued, user_resp, deleted>>

tables == <<receipt_tbl, product_tbl, product_to_receipt>>

accounts == <<user_tbl, issued, user_resp>>

None == [kind |-> "none"]

\* The clock counts minutes from 2023-01-01 12:00.
DateTime(n) == [year |-> 2023, month |-> 1, day |-> 1, hour |-> 12, minute |-> n]

\* session.get(Receipt, receipt_id)
SessionGet(tbl, receipt_id) ==
    IF \E i \in 1..Len(tbl) : tbl[i].id = receipt_id
    THEN tbl[CHOOSE i \in 1..Len(tbl) : tbl[i].id = receipt_id]
    ELSE None

\* select(Product, ProductToReceipt).join(...).where(receipt_id == id): the
\* (product, ptr) pairs of the receipt, in insertion order.
RECURSIVE ProductsOf(_, _, _)
ProductsOf(prods, ptrs, receipt_id) ==
    IF ptrs = <<>> THEN <<>>
    ELSE LET ptr == Head(ptrs)
             rest == ProductsOf(prods, Tail(ptrs), receipt_id)
         IN  IF ptr.receipt_id = receipt_id
                /\ \E i \in 1..Len(prods) : prods[i].id = ptr.product_id
             THEN <<[product |-> prods[CHOOSE i \in 1..Len(prods) :
                                           prods[i].id = ptr.product_id],
                     ptr |-> ptr]>> \o rest
             ELSE rest

(***************************************************************************)
(* format_receipt_response (routes/receipt.py:49-75).                      *)
(***************************************************************************)
\* sum(product.price * ptr.count for product, ptr in products): from the
\* int 0, left to right.
RECURSIVE SumFrom(_, _)
SumFrom(acc, rows) ==
    IF rows = <<>> THEN acc
    ELSE SumFrom(FAdd(acc, FMul(Head(rows).product.price, Head(rows).ptr.count)),
                 Tail(rows))

ProductEntry(row) ==
    [name     |-> row.product.name,
     price    |-> row.product.price,
     quantity |-> row.ptr.count,
     total    |-> FMul(row.product.price, row.ptr.count)]

FormatClamped(db_receipt, rows) ==
    LET total == SumFrom(FZero, rows)
        diff  == FSub(db_receipt.amount, total)
    IN  [id         |-> db_receipt.id,
         products   |-> [i \in 1..Len(rows) |-> ProductEntry(rows[i])],
         payment    |-> [type   |-> PaymentValue(db_receipt.payment_type),
                         amount |-> db_receipt.amount],
         total      |-> total,
         rest       |-> IF IsNeg(diff) THEN FZero ELSE diff,
         created_at |-> db_receipt.created_at]

format_receipt_response(db_receipt, rows) ==
    LET total == SumFrom(FZero, rows)
    IN  [id         |-> db_receipt.id,
         products   |-> [i \in 1..Len(rows) |-> ProductEntry(rows[i])],
         payment    |-> [type   |-> PaymentValue(db_receipt.payment_type),
                         amount |-> db_receipt.amount],
         total      |-> total,
         rest       |-> FSub(db_receipt.amount, total),
         created_at |-> db_receipt.created_at]

(***************************************************************************)
(* The text of get_formatted_receipt (routes/receipt.py:184-209).          *)
(***************************************************************************)
HeaderLinesAfterLoop(db_receipt) == <<>>

HeaderLines(db_receipt) ==
    <<Center(db_receipt.shop_name, RECEIPT_SIZE), Repeat("=", RECEIPT_SIZE)>>

ItemLines(row) ==
    LET subtotal == FMul(row.product.price, row.ptr.count)
        qty_line == FmtInt2(row.ptr.count) \o <<" ", "x", " ">>
                        \o Fmt2(row.product.price)
    IN  <<LJust(qty_line, RECEIPT_SIZE),
          LJust(row.product.name, RECEIPT_SIZE - 12) \o RJust(Fmt2(subtotal), 12),
          Repeat("-", RECEIPT_SIZE)>>

\* The loop of lines 189-196: the lines so far and the running total.
RECURSIVE RenderItems(_, _)
RenderItems(acc, rows) ==
    IF rows = <<>> THEN acc
    ELSE RenderItems(
             [lines |-> acc.lines \o ItemLines(Head(rows)),
              total |-> FAdd(acc.total,
                             FMul(Head(rows).product.price, Head(rows).ptr.count))],
             Tail(rows))

\* lines.pop(): the list without its last element (IndexError on an empty list).
PopKeeps(lines) == lines

Pop(lines) == SubSeq(lines, 1, Len(lines) - 1)

TimestampNow(db_receipt) == Center(Strftime(DateTime(now)), RECEIPT_SIZE)

TimestampLine(db_receipt) == Center(Strftime(db_receipt.created_at), RECEIPT_SIZE)

FooterLines(db_receipt, total) ==
    <<Repeat("=", RECEIPT_SIZE),
      LabelTotal \o RJust(Fmt2(total), RECEIPT_SIZE - 4),
      LJust(PaymentValue(db_receipt.payment_type), RECEIPT_SIZE - 22)
          \o RJust(Fmt2(db_receipt.amount), 22),
      LabelRest \o RJust(Fmt2(FSub(db_receipt.amount, total)), RECEIPT_SIZE - 5),
      Repeat("=", RECEIPT_SIZE),
      TimestampLine(db_receipt),
      Center(Caption, RECEIPT_SIZE)>>

\* What the handler returns for a receipt that exists.
FormattedReceipt(db_receipt, rows) ==
    LET loop == RenderItems([lines |-> HeaderLines(db_receipt), total |-> FZero], rows)
    IN  IF loop.lines = <<>>
        THEN [kind |-> "raise", op |-> "get_formatted_receipt",
              receipt_id |-> db_receipt.id, exc |-> "IndexError"]
        ELSE [kind |-> "text", op |-> "get_formatted_receipt",
              receipt_id |-> db_receipt.id,
              body |-> Join(Pop(loop.lines) \o FooterLines(db_receipt, loop.total))]

HttpError(op, receipt_id, status, detail) ==
    [kind |-> "error", op |-> op, receipt_id |-> receipt_id,
     status |-> status, detail |-> detail]


(***************************************************************************)
(* Inputs.                                                                 *)
(***************************************************************************)
UserIds == {1, 2}

ReceiptIds == 1..(MaxReceipts + 1)

PaymentTypes == {"CASH", "CASHLESS"}

\* The shop of the test (19 characters) and one of 33 characters.
ShopTest == <<"u0424", "u041E", "u041F", " ", "u0414", "u0436", "u043E", "u043D",
              "u0441", "u043E", "u043D", "u044E", "u043A", " ", "u0411", "u043E",
              "u0440", "u0438", "u0441">>

ShopLong == Repeat("S", RECEIPT_SIZE + 1)

ShopNames == {ShopTest, ShopLong}

\* 0.00 and 100.00
Amounts == {F(0, 0), F(0, 400)}

NameTest == <<"T", "e", "s", "t", " ", "P", "r", "o", "d", "u", "c", "t", " ">>

\* ProductCreate values: the two of the test (25.50 x 2, 15.75 x 1) and one
\* with a name of 21 characters and the price 2^53.
Items ==
    {[name |-> NameTest \o <<"1">>, quantity_type |-> "items",
      quantity |-> 2, price |-> F(0, 102)],
     [name |-> NameTest \o <<"2">>, quantity_type |-> "items",
      quantity |-> 1, price |-> F(0, 63)],
     [name |-> Repeat("n", RECEIPT_SIZE - 11), quantity_type |-> "kilograms",
      quantity |-> 1, price |-> F(1, 0)]}

SeqsUpTo(S, n) == UNION {[1..k -> S] : k \in 0..n}

\* ReceiptCreate values
ReceiptData ==
    [payment_type : PaymentTypes, amount : Amounts, shop_name : ShopNames,
     products : SeqsUpTo(Items, MaxItems)]

\* What the service is sent: the receipt of the test with any products of it.
Orders ==
    [payment_type : {"CASH"}, amount : {F(0, 400)}, shop_name : {ShopTest},
     products : SeqsUpTo({it \in Items : it.price.hi = 0}, MaxRows)]

(***************************************************************************)
(* Rows.                                                                   *)
(***************************************************************************)
NextId(tbl) ==
    IF tbl = <<>> THEN 1
    ELSE 1 + (CHOOSE m \in {tbl[i].id : i \in 1..Len(tbl)} :
                  \A i \in 1..Len(tbl) : tbl[i].id <= m)

NewReceipt(id, user_id, data, t) ==
    [id |-> id, user_id |-> user_id, created_at |-> DateTime(t),
     payment_type |-> data.payment_type, amount |-> data.amount,
     shop_name |-> data.shop_name]

NewProduct(id, product_data) ==
    [id |-> id, name |-> product_data.name, price |-> product_data.price,
     quantity_type |-> product_data.quantity_type]

NewProductToReceipt(receipt_id, product_id, product_data) ==
    [receipt_id |-> receipt_id, product_id |-> product_id,
     count |-> product_data.quantity]

Idle == [pc |-> "idle"]

(***************************************************************************)
(* get_formatted_receipt (routes/receipt.py:170-209): session.get, then    *)
(* the products query and the rendering.                                   *)
(***************************************************************************)
FormattedGetQueriesFirst(receipt_id) ==
    /\ reader = Idle
    /\ LET receipt == SessionGet(receipt_tbl, receipt_id)
       IN  IF receipt = None
           THEN /\ resp' = HttpError("get_formatted_receipt", receipt_id, 404,
                                     "Receipt not found")
                             @@ [calls |-> <<"get", "exec">>]
                /\ reader' = Idle
           ELSE /\ reader' = [pc |-> "products", op |-> "get_formatted_receipt",
                              receipt_id |-> receipt_id, db_receipt |-> receipt]
                /\ UNCHANGED resp
    /\ UNCHANGED <<tables, now, creator, requested, accounts, deleted>>

FormattedGet(receipt_id) ==
    /\ reader = Idle
    /\ LET receipt == SessionGet(receipt_tbl, receipt_id)
       IN  IF receipt = None
           THEN /\ resp' = HttpError("get_formatted_receipt", receipt_id, 404,
                                     "Receipt not found")
                             @@ [calls |-> <<"get">>]
                /\ reader' = Idle
           ELSE /\ reader' = [pc |-> "products", op |-> "get_formatted_receipt",
                              receipt_id |-> receipt_id, db_receipt |-> receipt]
                /\ UNCHANGED resp
    /\ UNCHANGED <<tables, now, creator, requested, accounts, deleted>>

FormattedRender ==
    /\ reader.pc = "products"
    /\ reader.op = "get_formatted_receipt"
    /\ resp' = FormattedReceipt(reader.db_receipt,
                   ProductsOf(product_tbl, product_to_receipt, reader.receipt_id))
                 @@ [calls |-> <<"get", "exec">>]
    /\ reader' = Idle
    /\ UNCHANGED <<tables, now, creator, requested, accounts, deleted>>

(***************************************************************************)
(* read_receipt (routes/receipt.py:154-167).                               *)
(***************************************************************************)
ReadGet(receipt_id, current_user) ==
    /\ reader = Idle
    /\ LET receipt == SessionGet(receipt_tbl, receipt_id)
       IN  IF receipt = None
           THEN /\ resp' = HttpError("read_receipt", receipt_id, 404,
                                     "Receipt not found")
                             @@ [calls |-> <<"get">>]
                /\ reader' = Idle
           ELSE IF receipt.user_id # current_user
           THEN /\ resp' = HttpError("read_receipt", receipt_id, 403,
                                     "Not authorized to access this receipt")
                             @@ [calls |-> <<"get">>]
                /\ reader' = Idle
           ELSE /\ reader' = [pc |-> "products", op |-> "read_receipt",
                              receipt_id |-> receipt_id, db_receipt |-> receipt]
                /\ UNCHANGED resp
    /\ UNCHANGED <<tables, now, creator, requested, accounts, deleted>>

ReadFormat ==
    /\ reader.pc = "products"
    /\ reader.op = "read_receipt"
    /\ resp' = [kind |-> "summary", op |-> "read_receipt",
                receipt_id |-> reader.receipt_id,
                body |-> format_receipt_response(reader.db_receipt,
                             ProductsOf(product_tbl, product_to_receipt,
                                        reader.db_receipt.id)),
                calls |-> <<"get", "exec">>]
    /\ reader' = Idle
    /\ UNCHANGED <<tables, now, creator, requested, accounts, deleted>>

(***************************************************************************)
(* create_receipt (routes/receipt.py:78-118), one step per commit.         *)
(***************************************************************************)
\* Lines 84-95: the receipt row is added and committed.
CreateBegin(receipt_data, current_user) ==
    /\ creator.pc = "idle"
    /\ Len(receipt_tbl) < MaxReceipts
    /\ Len(product_tbl) + Len(receipt_data.products) <= MaxRows
    /\ LET id == NextId(receipt_tbl)
       IN  /\ receipt_tbl' = Append(receipt_tbl,
                                    NewReceipt(id, current_user, receipt_data, now))
           /\ creator' = [pc |-> "loop", products_data |-> receipt_data.products,
                          receipt_id |-> id, i |-> 1, pending |-> <<>>]
           /\ requested' = [requested EXCEPT ![id] = receipt_data.products]
    /\ resp' = None
    /\ UNCHANGED <<product_tbl, product_to_receipt, now, reader, accounts, deleted>>

\* Lines 98-113, one iteration: the commit of the product also writes the
\* association row the iteration before added to the session; this
\* iteration's row stays pending.  The commit expires db_receipt, so
\* db_receipt.id at line 109 reads the row again and raises
\* ObjectDeletedError when the row is gone.
CreateProduct ==
    /\ creator.pc = "loop"
    /\ creator.i <= Len(creator.products_data)
    /\ LET product_data == creator.products_data[creator.i]
           id == NextId(product_tbl)
       IN  /\ product_tbl' = Append(product_tbl, NewProduct(id, product_data))
           /\ product_to_receipt' = product_to_receipt \o creator.pending
           /\ IF SessionGet(receipt_tbl, creator.receipt_id) = None
              THEN creator' = [pc |-> "idle", raised |-> "ObjectDeletedError"]
              ELSE creator' = [creator EXCEPT
                       !.i = @ + 1,
                       !.pending = <<NewProductToReceipt(creator.receipt_id, id,
                                                         product_data)>>]
    /\ resp' = None
    /\ UNCHANGED <<receipt_tbl, now, reader, requested, accounts, deleted>>

\* Lines 115-118: the last commit, and the summary returned;
\* session.refresh at line 116 raises InvalidRequestError when the row is
\* gone.
CreateFinish ==
    /\ creator.pc = "loop"
    /\ creator.i > Len(creator.products_data)
    /\ product_to_receipt' = product_to_receipt \o creator.pending
    /\ IF SessionGet(receipt_tbl, creator.receipt_id) = None
       THEN creator' = [pc |-> "idle", raised |-> "InvalidRequestError"]
       ELSE creator' = [pc |-> "idle",
                        returned |-> format_receipt_response(
                            SessionGet(receipt_tbl, creator.receipt_id),
                            ProductsOf(product_tbl, product_to_receipt',
                                       creator.receipt_id))]
    /\ resp' = None
    /\ UNCHANGED <<receipt_tbl, product_tbl, now, reader, requested, accounts, deleted>>

\* Time passes.
Tick ==
    /\ now < MaxClock
    /\ now' = now + 1
    /\ UNCHANGED <<tables, creator, reader, resp, requested, accounts, deleted>>

(***************************************************************************)
(* The service: an empty database, requests interleaved commit by commit.  *)
(***************************************************************************)
Init ==
    /\ receipt_tbl = <<>>
    /\ product_tbl = <<>>
    /\ product_to_receipt = <<>>
    /\ now = 0
    /\ creator = [pc |-> "idle"]
    /\ reader = Idle
    /\ resp = None
    /\ requested = [id \in ReceiptIds |-> <<>>]
    /\ user_tbl = <<>>
    /\ issued = <<>>
    /\ user_resp = None
    /\ deleted = {}

Next ==
    \/ \E d \in Orders, u \in UserIds : CreateBegin(d, u)
    \/ CreateProduct
    \/ CreateFinish
    \/ Tick
    \/ \E id \in ReceiptIds : FormattedGet(id)
    \/ FormattedRender
    \/ \E id \in ReceiptIds, u \in UserIds : ReadGet(id, u)
    \/ ReadFormat

Spec == Init /\ [][Next]_vars

(***************************************************************************)
(* The handlers on a session that holds one receipt with any products, as  *)
(* the tests set it up (tests/routes/test_receipt.py:12-34).               *)
(***************************************************************************)
InitFmt ==
    \E d \in ReceiptData, u \in UserIds, t \in 0..MaxClock :
        /\ receipt_tbl = <<NewReceipt(1, u, d, t)>>
        /\ product_tbl = [i \in 1..Len(d.products) |-> NewProduct(i, d.products[i])]
        /\ product_to_receipt =
               [i \in 1..Len(d.products) |->
                    NewProductToReceipt(1, i, d.products[i])]
        /\ now = t
        /\ creator = [pc |-> "idle"]
        /\ reader = Idle
        /\ resp = None
        /\ requested = [id \in ReceiptIds |-> IF id = 1 THEN d.products ELSE <<>>]
        /\ user_tbl = <<>>
        /\ issued = <<>>
        /\ user_resp = None
        /\ deleted = {}
    
NextFmt ==
    \/ \E id \in ReceiptIds : FormattedGet(id)
    \/ FormattedRender
    \/ \E id \in ReceiptIds, u \in UserIds : ReadGet(id, u)
    \/ ReadFormat

SpecFmt == InitFmt /\ [][NextFmt]_vars

(***************************************************************************)
(* What the properties below speak about.                                  *)
(***************************************************************************)
IsText == resp.kind = "text"

IsSummary == resp.kind = "summary"

\* The receipt the last response is about and its line items, as stored.  No
\* commit has happened since the response (resp is forgotten at a commit).
RespReceipt == SessionGet(receipt_tbl, resp.receipt_id)

RespRows == ProductsOf(product_tbl, product_to_receipt, resp.receipt_id)

RespLines == SplitLines(resp.body)

Separator == Repeat("=", RECEIPT_SIZE)

IsPrefix(p, s) == Len(p) <= Len(s) /\ SubSeq(s, 1, Len(p)) = p

IsSuffix(p, s) == Len(p) <= Len(s) /\ SubSeq(s, Len(s) - Len(p) + 1, Len(s)) = p

\* The line items in every order.
Reorderings(rows) ==
    {[i \in 1..Len(rows) |-> rows[p[i]]] :
        p \in {q \in [1..Len(rows) -> 1..Len(rows)] :
                  \A i, j \in 1..Len(rows) : q[i] = q[j] => i = j}}

\* The lines of the totals block, counted from the end of the text.
FromEnd(lines, k) == lines[Len(lines) - k]

TotalLine == FromEnd(RespLines, 5)

RestLine == FromEnd(RespLines, 3)

(***************************************************************************)
(* C1: the total of the summary and the total on the total line of the     *)
(* text both equal the sum of price * count over the line items, and every *)
(* reordering of the line items gives the same total.                      *)
(***************************************************************************)
C1_TotalIsTheOrderIndependentSum ==
    /\ IsSummary =>
           \A rows \in Reorderings(RespRows) :
               resp.body.total = SumFrom(FZero, rows)
    /\ IsText =>
           \A line \in {TotalLine}, rows \in Reorderings(RespRows) :
               line = LabelTotal \o RJust(Fmt2(SumFrom(FZero, rows)),
                                          RECEIPT_SIZE - 4)

(***************************************************************************)
(* C2: rest is the amount tendered minus the total, in the summary and on  *)
(* the rest line of the text; it is not clamped: when the amount is below  *)
(* the total the rest is negative, and a result is still returned.         *)
(***************************************************************************)
C2_RestIsAmountMinusTotal ==
    /\ resp.kind # "raise"
    /\ IsSummary =>
           /\ resp.body.rest = FSub(resp.body.payment.amount, resp.body.total)
           /\ resp.body.payment.amount = RespReceipt.amount
           /\ FLess(resp.body.payment.amount, resp.body.total)
                  => IsNeg(resp.body.rest)
    /\ IsText =>
           \A line \in {RestLine}, total \in {SumFrom(FZero, RespRows)} :
               /\ line = LabelRest \o RJust(Fmt2(FSub(RespReceipt.amount, total)),
                                            RECEIPT_SIZE - 5)
               /\ FLess(RespReceipt.amount, total)
                      => \E i \in 1..Len(line) : line[i] = "-"

C2_Underpaid ==
    /\ IsSummary
    /\ FLess(resp.body.payment.amount, resp.body.total)
    /\ IsNeg(resp.body.rest)

(***************************************************************************)
(* C3: for a receipt without line items the text reports the total 0 and   *)
(* the rest equal to the amount tendered, has no item blocks, and has two  *)
(* consecutive separator lines right after the shop name line.             *)
(***************************************************************************)
C3_EmptyReceiptKeepsBothSeparators ==
    (IsText /\ RespRows = <<>>) =>
        \A l \in {RespLines} :
            /\ FromEnd(l, 5) = LabelTotal \o RJust(Fmt2(FZero), RECEIPT_SIZE - 4)
            /\ FromEnd(l, 3) = LabelRest \o RJust(Fmt2(RespReceipt.amount),
                                                RECEIPT_SIZE - 5)
            /\ \A i \in 1..Len(l) : l[i] # Repeat("-", RECEIPT_SIZE)
            /\ l[2] = Separator
            /\ l[3] = Separator

(***************************************************************************)
(* C4: every line of the text is exactly 32 characters long.               *)
(***************************************************************************)
C4_EveryLineIs32Wide ==
    IsText => \A l \in {RespLines} : \A i \in 1..Len(l) : Len(l[i]) = RECEIPT_SIZE

(***************************************************************************)
(* C5: the text of a receipt with n >= 1 line items: shop name, separator, *)
(* per item a quantity line and a name line, a dashed line between         *)
(* consecutive items only, then separator, total, payment, rest,           *)
(* separator, timestamp, caption; joined by single newlines, none at the   *)
(* end.  LayoutOf(k) states it with 3n + k lines.                          *)
(***************************************************************************)
LayoutOf(k) ==
    (IsText /\ RespRows # <<>>) =>
        \A l \in {RespLines}, n \in {Len(RespRows)} :
            /\ Len(l) = 3 * n + k
            /\ resp.body[Len(resp.body)] # "\n"
            /\ \A i \in 1..Len(l) : l[i] # <<>>
            /\ IsSuffix(RespReceipt.shop_name, SubSeq(l[1], 1,
                   Len(l[1]) - (Max(0, RECEIPT_SIZE - Len(RespReceipt.shop_name))
                                - Max(0, RECEIPT_SIZE - Len(RespReceipt.shop_name))
                                      \div 2)))
            /\ l[2] = Separator
            /\ \A j \in 1..n :
                   /\ IsPrefix(FmtInt2(RespRows[j].ptr.count) \o <<" ", "x", " ">>
                                   \o Fmt2(RespRows[j].product.price), l[3 * j])
                   /\ IsPrefix(RespRows[j].product.name, l[3 * j + 1])
                   /\ IsSuffix(Fmt2(FMul(RespRows[j].product.price,
                                         RespRows[j].ptr.count)), l[3 * j + 1])
                   /\ j < n => l[3 * j + 2] = Repeat("-", RECEIPT_SIZE)
            /\ l[3 * n + 2] = Separator
            /\ IsPrefix(LabelTotal, l[3 * n + 3])
            /\ IsPrefix(PaymentValue(RespReceipt.payment_type), l[3 * n + 4])
            /\ IsSuffix(Fmt2(RespReceipt.amount), l[3 * n + 4])
            /\ IsPrefix(LabelRest, l[3 * n + 5])
            /\ l[3 * n + 6] = Separator
            /\ l[3 * n + 7] = Center(Strftime(RespReceipt.created_at), RECEIPT_SIZE)
            /\ l[3 * n + 8] = Center(Caption, RECEIPT_SIZE)

\* C5 as claimed: 3n + 7 lines.
C5_LayoutIn3nPlus7Lines == LayoutOf(7)

\* C5 as amended: the layout has 3n + 8 lines.
C5_LayoutIn3nPlus8Lines == LayoutOf(8)

\* The receipt of the test: two items, fourteen lines.
C5_TwoItemsRendered ==
    /\ IsText
    /\ resp.op = "get_formatted_receipt"
    /\ Len(RespRows) = 2
    /\ RespRows[1].product.name # RespRows[2].product.name
    /\ Len(RespLines) = 14

(***************************************************************************)
(* C6: for a receipt id that does not exist get_formatted_receipt raises   *)
(* 404 "Receipt not found" and returns no text, and it raises before it    *)
(* queries the line items; it raises nothing for a receipt that exists.    *)
(***************************************************************************)
C6_MissingReceiptIsNotFound ==
    (resp.kind # "none" /\ resp.op = "get_formatted_receipt") =>
        IF RespReceipt = None
        THEN /\ resp.kind = "error"
             /\ resp.status = 404
             /\ resp.detail = "Receipt not found"
             /\ resp.calls = <<"get">>
        ELSE resp.kind # "error"

C6_NotFoundRaised ==
    /\ resp.kind = "error"
    /\ resp.op = "get_formatted_receipt"
    /\ resp.status = 404
    /\ receipt_tbl # <<>>

(***************************************************************************)
(* C7: for a receipt that exists, with any line items, the empty list      *)
(* included, get_formatted_receipt returns the text and read_receipt the   *)
(* summary of format_receipt_response; nothing is raised but the 404 of a  *)
(* missing receipt (and the 403 read_receipt raises for another user's).   *)
(***************************************************************************)
C7_FormattingNeverRaises ==
    /\ resp.kind # "raise"
    /\ (resp.kind # "none" /\ resp.op = "get_formatted_receipt") =>
           IF RespReceipt = None
           THEN resp.kind = "error" /\ resp.status = 404
           ELSE IsText
    /\ (resp.kind # "none" /\ resp.op = "read_receipt") =>
           IF RespReceipt = None
           THEN resp.kind = "error" /\ resp.status = 404
           ELSE IsSummary \/ (resp.kind = "error" /\ resp.status = 403)

C7_EmptyReceiptRendered == IsText /\ RespRows = <<>>

(***************************************************************************)
(* C8: a receipt and its line items become visible together: a response    *)
(* about a stored receipt shows all the line items the receipt was posted  *)
(* with, and the total of all of them.                                     *)
(***************************************************************************)
PostedRows(receipt_id) ==
    [i \in 1..Len(requested[receipt_id]) |->
        [product |-> NewProduct(i, requested[receipt_id][i]),
         ptr |-> NewProductToReceipt(receipt_id, i, requested[receipt_id][i])]]

C8_ReceiptAppearsWithItsItems ==
    /\ IsSummary =>
           /\ Len(resp.body.products) = Len(requested[resp.receipt_id])
           /\ ~FLess(resp.body.total, SumFrom(FZero, PostedRows(resp.receipt_id)))
    /\ IsText =>
           TotalLine = LabelTotal
               \o RJust(Fmt2(SumFrom(FZero, PostedRows(resp.receipt_id))),
                        RECEIPT_SIZE - 4)

(***************************************************************************)
(* C9: a step of get_formatted_receipt or read_receipt leaves the three    *)
(* tables as they are, and a call that follows a call for the same receipt *)
(* with no commit in between returns the same output.                      *)
(***************************************************************************)
ReaderActs == reader' # reader \/ (resp' # resp /\ resp'.kind # "none")

ReaderAnswersAgain ==
    /\ reader.pc = "products"
    /\ reader' = Idle
    /\ resp.kind = resp'.kind
    /\ resp.op = resp'.op
    /\ resp.receipt_id = resp'.receipt_id

C9_FormattingIsPure ==
    [][/\ ReaderActs => tables' = tables
       /\ ReaderAnswersAgain => resp'.body = resp.body]_vars

\* A text was returned, and the next call for the same receipt is under way.
C9_SecondCallUnderWay ==
    /\ IsText
    /\ reader.pc = "products"
    /\ reader.op = "get_formatted_receipt"
    /\ reader.receipt_id = resp.receipt_id
    /\ now > reader.db_receipt.created_at.minute

(***************************************************************************)
(* C10: the summary holds the payment type, the amount tendered, the       *)
(* total, the rest, the creation timestamp and the shop name of the        *)
(* receipt, and per line item, in line order, its name, unit price,        *)
(* quantity and subtotal = unit price * quantity.                          *)
(***************************************************************************)
C10_SummaryHoldsEveryField ==
    IsSummary =>
        LET b == resp.body
        IN  /\ b.payment.type = PaymentValue(RespReceipt.payment_type)
            /\ b.payment.amount = RespReceipt.amount
            /\ b.total = SumFrom(FZero, RespRows)
            /\ b.rest = FSub(RespReceipt.amount, b.total)
            /\ b.created_at = RespReceipt.created_at
            /\ Len(b.products) = Len(RespRows)
            /\ \A i \in 1..Len(RespRows) :
                   /\ b.products[i].name = RespRows[i].product.name
                   /\ b.products[i].price = RespRows[i].product.price
                   /\ b.products[i].quantity = RespRows[i].ptr.count
                   /\ b.products[i].total =
                          FMul(RespRows[i].product.price, RespRows[i].ptr.count)
            /\ "shop_name" \in DOMAIN b
            /\ b.shop_name = RespReceipt.shop_name

(***************************************************************************)
(* Passwords and tokens (src/app/core/security.py).                        *)
(***************************************************************************)
MaxTokens == 2

ACCESS_TOKEN_EXPIRE_MINUTES == 30

\* The salts bcrypt may draw.
Salts == {"saltsaltsaltsaltsaltAA", "saltsaltsaltsaltsaltBB"}

\* pwd_context.hash(password): the bcrypt string "$2b$12$", the salt and the
\* digest of the password under that salt.
get_password_hash(password, salt) ==
    "$2b$12$" \o salt \o "digest(" \o salt \o "," \o password \o ")"

\* pwd_context.verify(plain_password, hashed_password): hashes the plain
\* password under the salt of the hash and compares.
verify_password(plain_password, hashed_password) ==
    \E salt \in Salts : hashed_password = get_password_hash(plain_password, salt)

\* session.query(User).filter(User.username == username).first()
get_user(tbl, username) ==
    IF \E i \in 1..Len(tbl) : tbl[i].username = username
    THEN tbl[CHOOSE i \in 1..Len(tbl) :
                 /\ tbl[i].username = username
                 /\ \A j \in 1..(i - 1) : tbl[j].username # username]
    ELSE None

\* None stands for the False the code returns.
authenticate_user(tbl, username, password) ==
    LET user == get_user(tbl, username)
    IN  IF user = None THEN None
        ELSE IF ~verify_password(password, user.hashed_password) THEN None
        ELSE user

\* The signed token, by its parts: to_encode is data with "iat" set to the
\* expiry, expires_delta minutes after t.
create_access_token(data, expires_delta, t) ==
    [header |-> [alg |-> "HS256"],
     claims |-> [sub |-> data.sub, iat |-> t + expires_delta],
     signed_with |-> "key"]


(***************************************************************************)
(* routes/user.py                                                          *)
(***************************************************************************)
Usernames == {"testuser", "valid_user"}

Emails == {"test@example.com", "valid@example.com"}

Passwords == {"password123", "valid_password"}

\* UserCreate values
UserData ==
    [username : Usernames, email : Emails, full_name : {"Test User"},
     password : Passwords]

\* OAuth2PasswordRequestForm values
Forms == [username : Usernames, password : Passwords]

NewUser(id, user, hashed_password) ==
    [id |-> id, username |-> user.username, email |-> user.email,
     full_name |-> user.full_name, disabled |-> FALSE,
     hashed_password |-> hashed_password]

\* create_user (lines 36-58).  Both username and email are unique columns
\* (models.py:85-86), the handler looks only for the email: the commit of a
\* row with a username already stored raises IntegrityError.
create_user(user, salt) ==
    /\ LET same_email == \E i \in 1..Len(user_tbl) : user_tbl[i].email = user.email
           same_name  == \E i \in 1..Len(user_tbl) :
                             user_tbl[i].username = user.username
           db_user    == NewUser(NextId(user_tbl), user,
                                 get_password_hash(user.password, salt))
       IN  IF same_email
           THEN /\ user_resp' = [kind |-> "error", op |-> "create_user",
                                 input |-> user, status |-> 400,
                                 detail |-> "Email already registered",
                                 calls |-> <<"query">>]
                /\ UNCHANGED user_tbl
           ELSE IF same_name
           THEN /\ user_resp' = [kind |-> "raise", op |-> "create_user",
                                 input |-> user, error |-> "IntegrityError",
                                 calls |-> <<"query", "add", "commit">>]
                /\ UNCHANGED user_tbl
           ELSE /\ user_tbl' = Append(user_tbl, db_user)
                /\ user_resp' = [kind |-> "user", op |-> "create_user",
                                 input |-> user, body |-> db_user,
                                 calls |-> <<"query", "add", "commit", "refresh">>]
    /\ UNCHANGED <<tables, now, creator, reader, resp, requested, issued, deleted>>

\* Makes the token before it looks at the credentials.
LoginIssuesFirst(form_data) ==
    /\ Len(issued) < MaxTokens
    /\ LET user == authenticate_user(user_tbl, form_data.username,
                                     form_data.password)
           access_token == create_access_token([sub |-> form_data.username],
                               ACCESS_TOKEN_EXPIRE_MINUTES, now)
       IN  /\ issued' = Append(issued, access_token)
           /\ IF user = None
              THEN user_resp' = [kind |-> "error", op |-> "login_for_access_token",
                                 input |-> form_data, status |-> 401,
                                 detail |-> "Incorrect username or password",
                                 headers |-> ("WWW-Authenticate" :> "Bearer")]
              ELSE user_resp' = [kind |-> "token", op |-> "login_for_access_token",
                                 input |-> form_data,
                                 body |-> [access_token |-> access_token,
                                           token_type |-> "bearer"]]
    /\ UNCHANGED <<tables, now, creator, reader, resp, requested, user_tbl, deleted>>

\* login_for_access_token (lines 18-34)
login_for_access_token(form_data) ==
    /\ LET user == authenticate_user(user_tbl, form_data.username,
                                     form_data.password)
       IN  IF user = None
           THEN /\ user_resp' = [kind |-> "error", op |-> "login_for_access_token",
                                 input |-> form_data, status |-> 401,
                                 detail |-> "Incorrect username or password",
                                 headers |-> ("WWW-Authenticate" :> "Bearer")]
                /\ UNCHANGED issued
           ELSE /\ Len(issued) < MaxTokens
                /\ LET access_token ==
                           create_access_token([sub |-> user.username],
                               ACCESS_TOKEN_EXPIRE_MINUTES, now)
                   IN  /\ issued' = Append(issued, access_token)
                       /\ user_resp' = [kind |-> "token",
                                        op |-> "login_for_access_token",
                                        input |-> form_data,
                                        body |-> [access_token |-> access_token,
                                                  token_type |-> "bearer"]]
    /\ UNCHANGED <<tables, now, creator, reader, resp, requested, user_tbl, deleted>>

\* The user routes on an empty database.
NextUser ==
    \/ \E user \in UserData, salt \in Salts : create_user(user, salt)
    \/ \E form_data \in Forms : login_for_access_token(form_data)
    \/ Tick

SpecUser == Init /\ [][NextUser]_vars


(***************************************************************************)
(* The user routes' properties.                                            *)
(***************************************************************************)
Count(calls, name) == Cardinality({i \in 1..Len(calls) : calls[i] = name})

GrowsByOne(old, new) == Len(new) = Len(old) + 1 /\ SubSeq(new, 1, Len(old)) = old

LoginActs ==
    /\ user_resp'.kind # "none"
    /\ user_resp'.op = "login_for_access_token"
    /\ user_resp' # user_resp \/ issued' # issued

CreateUserActs ==
    /\ user_resp'.kind # "none"
    /\ user_resp'.op = "create_user"
    /\ user_resp' # user_resp \/ user_tbl' # user_tbl

\* C11: login_for_access_token issues a token only after successful
\* authentication.  When authenticate_user fails the call raises 401
\* "Incorrect username or password" with the header WWW-Authenticate: Bearer
\* and no token is created; when it succeeds the call returns token_type
\* "bearer" and an access token that was created exactly once, whose claim
\* sub is the authenticated user's username.
C11_TokenOnlyAfterAuthentication ==
    [][LoginActs =>
         LET form_data == user_resp'.input
             user == authenticate_user(user_tbl, form_data.username,
                                       form_data.password)
         IN  IF user = None
             THEN /\ user_resp'.kind = "error"
                  /\ user_resp'.status = 401
                  /\ user_resp'.detail = "Incorrect username or password"
                  /\ user_resp'.headers = ("WWW-Authenticate" :> "Bearer")
                  /\ issued' = issued
             ELSE /\ user_resp'.kind = "token"
                  /\ user_resp'.body.token_type = "bearer"
                  /\ GrowsByOne(issued, issued')
                  /\ user_resp'.body.access_token = issued'[Len(issued')]
                  /\ user_resp'.body.access_token.claims.sub = user.username]_vars

\* A login was refused after another one had been given its token.
C11_RefusedAfterALogin ==
    /\ user_resp.kind = "error"
    /\ user_resp.op = "login_for_access_token"
    /\ Len(issued) = 1
    /\ get_user(user_tbl, user_resp.input.username) # None

\* C12: create_user with an email that is already registered raises 400
\* "Email already registered" and leaves the stored users unchanged; with an
\* email that is not registered it stores exactly one new user (one add, one
\* commit, one refresh) whose username, email and full name are those of the
\* input and whose stored password is the hash, never the plain password.
C12_CreateUserStoresOneUser ==
    [][CreateUserActs =>
         LET user == user_resp'.input
         IN  IF \E i \in 1..Len(user_tbl) : user_tbl[i].email = user.email
             THEN /\ user_resp'.kind = "error"
                  /\ user_resp'.status = 400
                  /\ user_resp'.detail = "Email already registered"
                  /\ user_tbl' = user_tbl
             ELSE /\ user_resp'.kind = "user"
                  /\ GrowsByOne(user_tbl, user_tbl')
                  /\ user_resp'.body = user_tbl'[Len(user_tbl')]
                  /\ user_resp'.body.username = user.username
                  /\ user_resp'.body.email = user.email
                  /\ user_resp'.body.full_name = user.full_name
                  /\ user_resp'.body.hashed_password # user.password
                  /\ verify_password(user.password,
                                     user_resp'.body.hashed_password)
                  /\ Count(user_resp'.calls, "add") = 1
                  /\ Count(user_resp'.calls, "commit") = 1
                  /\ Count(user_resp'.calls, "refresh") = 1]_vars


(***************************************************************************)
(* delete_receipt (routes/receipt.py:212-228).                             *)
(***************************************************************************)
\* The rows of product_to_receipt that Receipt.products (models.py:53) loads.
Children(receipt_id) ==
    {i \in 1..Len(product_to_receipt) :
         product_to_receipt[i].receipt_id = receipt_id}

Without(tbl, receipt_id) == SelectSeq(tbl, LAMBDA row : row.id # receipt_id)

\* Receipt.products has no delete cascade, so the flush of the delete sets
\* receipt_id of every child row to NULL; receipt_id is part of that table's
\* primary key (models.py:22) and the flush raises AssertionError.  A receipt
\* with no rows in product_to_receipt is deleted.
delete_receipt(receipt_id, current_user) ==
    /\ LET receipt == SessionGet(receipt_tbl, receipt_id)
       IN  IF receipt = None
           THEN /\ resp' = HttpError("delete_receipt", receipt_id, 404,
                                     "Receipt not found")
                             @@ [calls |-> <<"get">>]
                /\ UNCHANGED <<receipt_tbl, deleted>>
           ELSE IF receipt.user_id # current_user
           THEN /\ resp' = HttpError("delete_receipt", receipt_id, 403,
                                     "Not authorized to delete this receipt")
                             @@ [calls |-> <<"get">>]
                /\ UNCHANGED <<receipt_tbl, deleted>>
           ELSE IF Children(receipt_id) # {}
           THEN /\ resp' = [kind |-> "raise", op |-> "delete_receipt",
                            receipt_id |-> receipt_id,
                            error |-> "AssertionError",
                            calls |-> <<"get", "delete", "commit">>]
                /\ UNCHANGED <<receipt_tbl, deleted>>
           ELSE /\ receipt_tbl' = Without(receipt_tbl, receipt_id)
                /\ deleted' = deleted \cup {receipt_id}
                /\ resp' = [kind |-> "message", op |-> "delete_receipt",
                            receipt_id |-> receipt_id,
                            body |-> [message |-> "Receipt deleted"],
                            calls |-> <<"get", "delete", "commit">>]
    /\ UNCHANGED <<product_tbl, product_to_receipt, now, creator, reader,
                   requested, accounts>>

\* The receipt routes with deletion, requests interleaved commit by commit.
NextOwn ==
    \/ \E d \in Orders, u \in UserIds : CreateBegin(d, u)
    \/ CreateProduct
    \/ CreateFinish
    \/ \E id \in ReceiptIds, u \in UserIds : delete_receipt(id, u)
    \/ \E id \in ReceiptIds : FormattedGet(id)
    \/ FormattedRender
    \/ \E id \in ReceiptIds, u \in UserIds : ReadGet(id, u)
    \/ ReadFormat

SpecOwn == Init /\ [][NextOwn]_vars


(***************************************************************************)
(* Ownership.                                                              *)
(***************************************************************************)
IsError(r, op, receipt_id, status) ==
    /\ r.kind = "error"
    /\ r.op = op
    /\ r.receipt_id = receipt_id
    /\ r.status = status

\* 404 for a missing id, else 403 for another user's receipt, and nothing
\* stored changes in either case.
OwnerOnly(op, receipt_id, current_user) ==
    LET receipt == SessionGet(receipt_tbl, receipt_id)
    IN  /\ receipt = None
            => IsError(resp', op, receipt_id, 404) /\ tables' = tables
        /\ (receipt # None /\ receipt.user_id # current_user)
            => IsError(resp', op, receipt_id, 403) /\ tables' = tables

StoredIds(tbl) == {tbl[i].id : i \in 1..Len(tbl)}

\* C13: read_receipt and delete_receipt act only for the receipt's owner.
\* For a missing id they raise 404, for an existing receipt of another user
\* 403 (existence is looked at first), and in both cases the stored state
\* is unchanged; a receipt is removed only by a delete_receipt call of its
\* owner; and once an id was deleted every read, delete or public formatting
\* that starts later answers 404 for it.
C13_OnlyTheOwnerAndGoneForGood ==
    [][/\ \A id \in ReceiptIds, u \in UserIds :
              /\ ReadGet(id, u) => OwnerOnly("read_receipt", id, u)
              /\ delete_receipt(id, u) => OwnerOnly("delete_receipt", id, u)
       /\ \A id \in StoredIds(receipt_tbl) \ StoredIds(receipt_tbl') :
              /\ delete_receipt(id, SessionGet(receipt_tbl, id).user_id)
              /\ receipt_tbl' = Without(receipt_tbl, id)
       /\ \A id \in deleted :
              /\ FormattedGet(id)
                     => IsError(resp', "get_formatted_receipt", id, 404)
              /\ \A u \in UserIds :
                     /\ ReadGet(id, u) => IsError(resp', "read_receipt", id, 404)
                     /\ delete_receipt(id, u)
                            => IsError(resp', "delete_receipt", id, 404)]_vars


(***************************************************************************)
(* read_receipts (routes/receipt.py:121-151).                              *)
(***************************************************************************)
MaxStored == 2

Min(a, b) == IF a <= b THEN a ELSE b

\* datetime <=, on values of one day and hour
DateLeq(a, b) == a.minute <= b.minute

\* OFFSET and LIMIT of the default database, SQLite (config.py:22): a
\* negative offset skips nothing, a negative limit is no limit.
Offset(rows, skip) == SubSeq(rows, Max(0, skip) + 1, Len(rows))

Limit(rows, limit) ==
    IF limit < 0 THEN rows ELSE SubSeq(rows, 1, Min(limit, Len(rows)))

\* query.offset(skip).limit(limit)
Page(rows, skip, limit) == Limit(Offset(rows, skip), limit)

\* Lines 133-142: the receipts of the user that pass the filters given, in
\* the order of the table, and the page of them.
Selected(q, current_user) ==
    Page(SelectSeq(receipt_tbl,
                   LAMBDA r :
                       /\ r.user_id = current_user
                       /\ q.created_from # None
                              => DateLeq(q.created_from, r.created_at)
                       /\ q.created_to # None
                              => DateLeq(r.created_at, q.created_to)
                       /\ q.payment_type # <<>>
                              => r.payment_type = q.payment_type[1]),
         q.skip, q.limit)

\* Lines 145-149
Formatted(receipts, q) ==
    SelectSeq([i \in 1..Len(receipts) |->
                   format_receipt_response(receipts[i],
                       ProductsOf(product_tbl, product_to_receipt,
                                  receipts[i].id))],
              LAMBDA r :
                  /\ q.min_total # None => ~FLess(r.total, q.min_total)
                  /\ q.max_total # None => ~FLess(q.max_total, r.total))

read_receipts(q, current_user) ==
    /\ resp' = [kind |-> "list", op |-> "read_receipts", query |-> q,
                current_user |-> current_user,
                body |-> Formatted(Selected(q, current_user), q)]
    /\ UNCHANGED <<tables, now, creator, reader, requested, accounts, deleted>>

\* The query parameters: the paging and the total filter in every
\* combination, with none or one of the filters of the query.  payment_type
\* is <<>> when the parameter is not given.
Queries ==
    {paging @@ filter :
         paging \in [skip : 0..1, limit : (-1)..MaxStored,
                     min_total : {None, F(0, 4)},
                     max_total : {None, F(0, 204)}],
         filter \in {[created_from |-> None, created_to |-> None,
                      payment_type |-> <<>>],
                     [created_from |-> DateTime(1), created_to |-> None,
                      payment_type |-> <<>>],
                     [created_from |-> None, created_to |-> DateTime(0),
                      payment_type |-> <<>>],
                     [created_from |-> None, created_to |-> None,
                      payment_type |-> <<"CASH">>]}}

\* What create_receipt leaves in the tables after the requests posts[1..k],
\* one a minute, each run to its end.
RECURSIVE Stored(_, _)
Stored(posts, k) ==
    IF k = 0 THEN [receipts |-> <<>>, products |-> <<>>, ptrs |-> <<>>]
    ELSE LET before == Stored(posts, k - 1)
             data   == posts[k].data
             first  == Len(before.products)
         IN  [receipts |-> Append(before.receipts,
                               NewReceipt(k, posts[k].user_id, data, k - 1)),
              products |-> before.products \o
                               [i \in 1..Len(data.products) |->
                                    NewProduct(first + i, data.products[i])],
              ptrs     |-> before.ptrs \o
                               [i \in 1..Len(data.products) |->
                                    NewProductToReceipt(k, first + i,
                                                        data.products[i])]]

\* Receipts of 0.00, 51.00 and 66.75, paid either way.
ListOrders ==
    [payment_type : PaymentTypes, amount : {F(0, 400)}, shop_name : {ShopTest},
     products : {<<>>} \cup {SubSeq(<<[name |-> NameTest \o <<"1">>,
                                       quantity_type |-> "items",
                                       quantity |-> 2, price |-> F(0, 102)],
                                      [name |-> NameTest \o <<"2">>,
                                       quantity_type |-> "items",
                                       quantity |-> 1, price |-> F(0, 63)]>>,
                                    1, n) : n \in 1..2}]

InitList ==
    \E posts \in SeqsUpTo([user_id : UserIds, data : ListOrders], MaxStored) :
        LET db == Stored(posts, Len(posts))
        IN  /\ receipt_tbl = db.receipts
            /\ product_tbl = db.products
            /\ product_to_receipt = db.ptrs
            /\ now = Len(posts)
            /\ creator = [pc |-> "idle"]
            /\ reader = Idle
            /\ resp = None
            /\ requested = [id \in ReceiptIds |-> <<>>]
            /\ user_tbl = <<>>
            /\ issued = <<>>
            /\ user_resp = None
            /\ deleted = {}

\* One request to each stored database.
NextList ==
    /\ resp = None
    /\ \E q \in Queries, u \in UserIds : read_receipts(q, u)

SpecList == InitList /\ [][NextList]_vars


(***************************************************************************)
(* The list's properties.                                                  *)
(***************************************************************************)
IsList == resp.kind = "list"

InRange(total, q) ==
    /\ q.min_total # None => ~FLess(total, q.min_total)
    /\ q.max_total # None => ~FLess(q.max_total, total)

\* The ids of the summaries, in order.
IdsOf(summaries) == [i \in 1..Len(summaries) |-> summaries[i].id]

\* The ids of the page of receipts that are in the range of totals.
IdsInRange(receipts, q) ==
    IdsOf(SelectSeq(receipts,
              LAMBDA r : InRange(SumFrom(FZero,
                                     ProductsOf(product_tbl, product_to_receipt,
                                                r.id)), q)))

\* C14: read_receipts returns at most limit summaries, each of a receipt of
\* the current user; with min_total and/or max_total given every summary
\* returned has min_total <= total <= max_total, the total being the sum over
\* the receipt's line items; and the total filter is applied to the page
\* that skip and limit selected.
C14_PageThenTotalFilter ==
    IsList =>
        \A q \in {resp.query}, out \in {resp.body} :
            /\ Len(out) <= Max(0, q.limit)
            /\ \A i \in 1..Len(out) :
                   /\ SessionGet(receipt_tbl, out[i].id).user_id
                          = resp.current_user
                   /\ out[i].total
                          = SumFrom(FZero, ProductsOf(product_tbl,
                                               product_to_receipt, out[i].id))
                   /\ InRange(out[i].total, q)
            /\ IdsOf(out) = IdsInRange(Selected(q, resp.current_user), q)

====
